---- MODULE Spec2Model ----
(***************************************************************************)
(* Model of src/main.py: the daily YouTube harvest.  main() checks whether *)
(* the dated worksheet exists, searches every channel page by page,        *)
(* fetches the details of the collected ids in chunks of 50, merges and    *)
(* ranks the records and exports them to the dated worksheet.              *)
(*                                                                         *)
(* Instants are seconds counted from 2020-01-01T00:00:00; a naive JST      *)
(* datetime is the UTC instant plus 9 hours on the same scale.  A date     *)
(* string YYYYMMDD is represented by its day number on that scale.         *)
(***************************************************************************)
EXTENDS Integers, Sequences, FiniteSets, TLC

\* ------------------------------------------------------------------ bounds
\* Largest feed of the big channel (the small one is one item shorter).
MaxBulk == 51
\* Items in a page of a server that answers with short pages.
ShortPage == 2
\* Value at which the count of search requests stops growing.
MaxSearchCalls == 40
\* Largest hour count of a duration token, largest like or comment count and
\* largest view count given to the display functions.
MaxHours == 25
MaxLikes == 5
MaxViews == 100

\* ------------------------------------------------------- program constants
\* timedelta(hours=9), in seconds.
JstOffset == 32400
SecondsPerDay == 86400
\* start_datetime_jst = "2022-01-01 00:00:00" (naive JST).
StartDatetimeJst == 63158400
\* maxResults ceiling of one search page, and size of one detail chunk.
PageCeiling == 50
ChunkSize == 50
\* max_total_results passed by main.
MaxTotalResults == 500
\* The cutoff instant the documentation names: 2020-01-01T00:00:00.
CutoffInstant == 0

None == 0

Procs == {"main", "other"}

\* ------------------------------------------------------------ time codec
jst_to_utc(jst) == jst - JstOffset

convert_to_japan_time(utc_time) == utc_time + JstOffset

get_current_japan_digit_date(utc_now) == (utc_now + JstOffset) \div SecondsPerDay

\* f"{sheet_name[:4]}-{sheet_name[4:6]}-{sheet_name[6:]} 23:59:59"
end_datetime_jst(name) == name * SecondsPerDay + (SecondsPerDay - 1)

\* --------------------------------------------------- the upstream catalogue
\* Two instants at which a run may start: 2026-11-01 10:00 UTC (19:00 JST,
\* same day) and 2026-11-01 16:00 UTC (01:00 JST of the next day).
Clocks == {215690400, 215712000}

\* Videos 1..7 are the history of channel chA, newest first; videos from 8
\* on are the uploads of channel chB, all recent.
SmallFeed == <<1, 2, 3, 4, 5, 6, 7>>
FirstBulk == Len(SmallFeed) + 1

PublishedAt(v) ==
    CASE v = 1 -> 215000000                          \* recent
      [] v = 2 -> jst_to_utc(StartDatetimeJst)       \* exactly the start of the period
      [] v = 3 -> jst_to_utc(StartDatetimeJst) - 1   \* one second before it
      [] v = 4 -> 44000000                           \* mid 2021
      [] v = 5 -> CutoffInstant                      \* exactly 2020-01-01T00:00:00Z
      [] v = 6 -> CutoffInstant - 1
      [] v = 7 -> CutoffInstant - SecondsPerDay
      [] OTHER -> jst_to_utc(StartDatetimeJst) + v * 1000

\* Videos tie in pairs on their view count.
BaseViews(v) == ((v + 1) \div 2) % 3

\* hi, hi - 1, ..., lo
Descending(hi, lo) == [k \in 1..(hi - lo + 1) |-> hi - k + 1]

Feed(channel, n) ==
    CASE channel = "chA" -> SmallFeed
      [] channel = "chB" -> Descending(FirstBulk + n - 1, FirstBulk)
      [] OTHER -> <<>>

Min(a, b) == IF a < b THEN a ELSE b

\* Channel lists the file may hold (lines, blank ones included) together
\* with the number of uploads of chB.
Scenarios ==
    { [file |-> <<>>, size |-> 0],
      [file |-> <<"", "chA">>, size |-> 0],
      [file |-> <<"chB">>, size |-> 0],
      [file |-> <<"chB">>, size |-> MaxBulk - 1],
      [file |-> <<"chB">>, size |-> MaxBulk],
      [file |-> <<"chA", "chA">>, size |-> 0],
      [file |-> <<"chB", "chA">>, size |-> 0],
      [file |-> <<"chA", "chB">>, size |-> 1] }

\* The row set a concurrent run of the same day has ready to publish.
OtherData == <<[video_id |-> 0, view_count |-> 9, published_at |-> 215000000]>>

\* What a worksheet left by an earlier run holds.
Headers == [header |-> TRUE]
OldContent == <<Headers, [video_id |-> 0, view_count |-> 1, published |-> 0]>>

\* Titles a worksheet of the spreadsheet may have: the dates of the clocks.
SheetNames == {get_current_japan_digit_date(t) : t \in Clocks}
\* The one an earlier day's run may have left.
OldSheetName == CHOOSE n \in SheetNames : \A m \in SheetNames : n <= m
Absent == [exists |-> FALSE, rows |-> <<>>]

VARIABLES
    now_utc,            \* datetime.utcnow() of this run
    channel_file,       \* lines of channel_ID.txt
    feed_size,          \* uploads of chB in the catalogue
    server_filters,     \* whether the search honours publishedAfter/Before
    server_page,        \* items the server puts in one page at most
    server_stalls,      \* the search answers no item and a fresh token, for ever
    detail_faults,      \* whether a detail request may raise or be malformed
    sink_reachable,     \* whether the spreadsheet can be opened for the check
    secondary_configured,  \* whether the environment names a second destination
    latest_sheet,       \* rows of that destination (the program never opens it)
    codec_pc,           \* which display function is applied: "off" in a run
    duration_parts,     \* hours, minutes, seconds the token was written from (-1: absent)
    duration_token,     \* argument of iso8601_to_duration, as characters
    duration_display,   \* its result
    counts,             \* like_count, comment_count, view_count
    engagement_rate,    \* result of calc_engagement_rate, in hundredths of a percent
    sheets,             \* the spreadsheet: worksheet title -> rows
    pc,                 \* position of each run
    channel_ids,
    ch,                 \* index of the channel being harvested
    video_ids,
    next_page_token,
    i,                  \* start of the next chunk in video_ids
    video_data,
    video_data_list,
    merged_video_data,  \* per run, the argument of export_to_google_sheet
    searchCalls,        \* search().list requests issued by main
    detailCalls,        \* videos().list requests issued by main
    sinkWrites,         \* per run, spreadsheet writes issued
    sawOld,             \* a page of this channel held an item before the cutoff
    pageFailed,         \* a page request of this channel raised
    detailLog,          \* chunks requested for this channel, in order
    lastMaxResults,     \* maxResults of the latest search request
    harvestLog,         \* per finished channel: its id, its ids, pageFailed, its chunks
    createFailed        \* the runs whose add_worksheet raised

vars == <<now_utc, channel_file, feed_size, server_filters, server_page,
          server_stalls, detail_faults, sink_reachable, secondary_configured,
          latest_sheet, codec_pc, duration_parts, duration_token,
          duration_display, counts, engagement_rate, lastMaxResults, sheets,
          pc, channel_ids, ch, video_ids, next_page_token, i, video_data,
          video_data_list, merged_video_data, searchCalls, detailCalls,
          sinkWrites, sawOld, pageFailed, detailLog, harvestLog, createFailed>>

\* What no step of the program changes.
fixed == <<now_utc, channel_file, feed_size, server_filters, server_page,
           server_stalls, detail_faults, sink_reachable, secondary_configured>>
codec == <<codec_pc, duration_parts, duration_token, duration_display, counts,
           engagement_rate>>
env == <<fixed, latest_sheet, codec>>
harvest == <<channel_ids, ch, video_ids, next_page_token, i, video_data,
             video_data_list>>
history == <<searchCalls, detailCalls, sawOld, pageFailed, detailLog, harvestLog,
             lastMaxResults>>
sink == <<sheets, sinkWrites, createFailed>>

sheet_name == get_current_japan_digit_date(now_utc)

\* ------------------------------------------------------- display functions
Digits == {"0", "1", "2", "3", "4", "5", "6", "7", "8", "9"}

DigitValue(c) ==
    CASE c = "0" -> 0 [] c = "1" -> 1 [] c = "2" -> 2 [] c = "3" -> 3 [] c = "4" -> 4
      [] c = "5" -> 5 [] c = "6" -> 6 [] c = "7" -> 7 [] c = "8" -> 8 [] c = "9" -> 9

\* The decimal digits of n, as the server writes a count in a token.
RECURSIVE DigitsOf(_)
DigitsOf(n) ==
    LET last == CHOOSE c \in Digits : DigitValue(c) = n % 10
    IN IF n < 10 THEN <<last>> ELSE DigitsOf(n \div 10) \o <<last>>

\* The token PT[nH][nM][nS] written from the parts that are present.
DurationToken(parts) ==
    <<"P", "T">>
       \o (IF parts[1] >= 0 THEN DigitsOf(parts[1]) \o <<"H">> ELSE <<>>)
       \o (IF parts[2] >= 0 THEN DigitsOf(parts[2]) \o <<"M">> ELSE <<>>)
       \o (IF parts[3] >= 0 THEN DigitsOf(parts[3]) \o <<"S">> ELSE <<>>)

\* Tokens that are not of that form.
MalformedTokens ==
    { <<>>, <<"P">>, <<"X">>, <<"1", "H">>, <<"P", "T">>, <<"P", "T", "X", "Y", "Z">> }

\* \d+ from pos on: the position after the last digit.
RECURSIVE DigitsEnd(_, _)
DigitsEnd(tok, pos) ==
    IF pos <= Len(tok) /\ tok[pos] \in Digits THEN DigitsEnd(tok, pos + 1) ELSE pos

\* int(match.group(k))
RECURSIVE IntOf(_)
IntOf(ds) ==
    IF ds = <<>> THEN 0
    ELSE IntOf(SubSeq(ds, 1, Len(ds) - 1)) * 10 + DigitValue(ds[Len(ds)])

\* (?:(\d+)U)? tried at pos: the group's value and where the match goes on;
\* without digits followed by U the group is skipped.
MatchGroup(tok, pos, unit) ==
    LET e == DigitsEnd(tok, pos)
    IN IF e > pos /\ e <= Len(tok) /\ tok[e] = unit
       THEN [value |-> IntOf(SubSeq(tok, pos, e - 1)), next |-> e + 1]
       ELSE [value |-> 0, next |-> pos]

Pad2(n) == IF n < 10 THEN "0" \o ToString(n) ELSE ToString(n)

\* str(timedelta(hours=..., minutes=..., seconds=...)): the days, when
\* there are any, come first; hours are those of the last day.
timedelta_str(hours, minutes, seconds) ==
    LET total == hours * 3600 + minutes * 60 + seconds
        days == total \div SecondsPerDay
        rest == total % SecondsPerDay
        hms == ToString(rest \div 3600) \o ":" \o Pad2((rest % 3600) \div 60)
                  \o ":" \o Pad2(rest % 60)
    IN IF days = 0 THEN hms
       ELSE ToString(days) \o (IF days = 1 THEN " day, " ELSE " days, ") \o hms

\* iso8601_to_duration: pattern.match needs "PT" at the start, then takes
\* the groups it finds in the order H, M, S.
iso8601_to_duration(tok) ==
    IF ~(Len(tok) >= 2 /\ tok[1] = "P" /\ tok[2] = "T")
    THEN "00:00:00"
    ELSE LET h == MatchGroup(tok, 3, "H")
             m == MatchGroup(tok, h.next, "M")
             sec == MatchGroup(tok, m.next, "S")
         IN timedelta_str(h.value, m.value, sec.value)

\* The integer nearest to num / den, and both neighbours when num / den
\* lies half way (the float product decides which one round() returns).
NearestTo(num, den) ==
    LET low == num \div den
    IN IF 2 * (num - low * den) < den THEN {low}
       ELSE IF 2 * (num - low * den) > den THEN {low + 1}
       ELSE {low, low + 1}

\* The rate computed from the likes alone.
calc_engagement_rate_likes_only(like_count, comment_count, view_count) ==
    IF view_count = 0 THEN {0}
    ELSE NearestTo(10000 * like_count, view_count)

\* calc_engagement_rate, in hundredths of a percent: the values
\* round((like_count + comment_count) / view_count * 100, 2) can take.
calc_engagement_rate(like_count, comment_count, view_count) ==
    IF view_count = 0 THEN {0}
    ELSE NearestTo(10000 * (like_count + comment_count), view_count)

\* The state of both runs and of the bookkeeping before main's first step.
Start ==
    /\ pc = [p \in Procs |-> IF p = "main" THEN "start" ELSE "check"]
    /\ channel_ids = <<>>
    /\ ch = 1
    /\ video_ids = <<>>
    /\ next_page_token = None
    /\ i = 0
    /\ video_data = <<>>
    /\ video_data_list = <<>>
    /\ merged_video_data = [p \in Procs |-> IF p = "main" THEN <<>> ELSE OtherData]
    /\ searchCalls = 0
    /\ detailCalls = 0
    /\ sinkWrites = [p \in Procs |-> 0]
    /\ sawOld = FALSE
    /\ pageFailed = FALSE
    /\ detailLog = <<>>
    /\ harvestLog = <<>>
    /\ lastMaxResults = 0
    /\ createFailed = {}
    /\ codec_pc = "off"
    /\ duration_parts = <<-1, -1, -1>>
    /\ duration_token = <<>>
    /\ duration_display = ""
    /\ counts = <<0, 0, 0>>
    /\ engagement_rate = 0

\* The spreadsheet before the run: empty, or with the sheet of an earlier day.
SheetsBefore ==
    {[n \in SheetNames |-> Absent],
     [n \in SheetNames |-> IF n = OldSheetName
                              THEN [exists |-> TRUE, rows |-> OldContent]
                              ELSE Absent]}

Init ==
    /\ now_utc \in Clocks
    /\ \E sc \in Scenarios : channel_file = sc.file /\ feed_size = sc.size
    /\ server_filters \in BOOLEAN
    /\ server_page \in {ShortPage, PageCeiling}
    /\ server_stalls = FALSE
    /\ detail_faults = TRUE
    /\ sink_reachable \in BOOLEAN
    /\ secondary_configured = FALSE
    /\ latest_sheet = OldContent
    /\ sheets \in SheetsBefore
    /\ Start

\* ------------------------------------------------------------ main: setup
\* The non-blank lines with every repeated id dropped.
read_channel_ids_unique(file) ==
    LET lines == SelectSeq(file, LAMBDA line : line # "")
        firsts == {k \in 1..Len(lines) : \A j \in 1..(k - 1) : lines[j] # lines[k]}
        Pick[k \in 0..Len(lines)] ==
            IF k = 0 THEN <<>>
            ELSE IF k \in firsts THEN Append(Pick[k - 1], lines[k]) ELSE Pick[k - 1]
    IN Pick[Len(lines)]

\* read_channel_ids: the stripped non-blank lines.
read_channel_ids(file) == SelectSeq(file, LAMBDA line : line # "")

\* An empty channel list taken as a harvest of nothing instead of an exit.
ReadChannelIdsNoExit ==
    /\ pc["main"] = "start"
    /\ channel_ids' = read_channel_ids(channel_file)
    /\ pc' = [pc EXCEPT !["main"] = IF channel_ids' = <<>> THEN "merge" ELSE "check"]
    /\ UNCHANGED <<env, sink, ch, video_ids, next_page_token, i, video_data,
                   video_data_list, merged_video_data, history>>

\* main, lines 232-233: an empty channel list is sys.exit(1).
ReadChannelIds ==
    /\ pc["main"] = "start"
    /\ channel_ids' = read_channel_ids(channel_file)
    /\ pc' = [pc EXCEPT !["main"] = IF channel_ids' = <<>> THEN "fatal" ELSE "check"]
    /\ UNCHANGED <<env, sink, ch, video_ids, next_page_token, i, video_data,
                   video_data_list, merged_video_data, history>>

\* existing_sheets = [ws.title for ws in sh.worksheets()]
existing_sheets == {n \in DOMAIN sheets : sheets[n].exists}

\* The membership test of line 252 dropped: the sheet is never found.
SheetExistsNever(name, existing) == FALSE

\* if sheet_name in existing_sheets
SheetExists(name, existing) == name \in existing

\* The except of line 255 swallowing the error: the run goes on.
CheckSheetSwallowsError ==
    /\ pc["main"] = "check"
    /\ pc' = [pc EXCEPT !["main"] =
                 IF sink_reachable /\ SheetExists(sheet_name, existing_sheets)
                 THEN "skipped" ELSE "search"]
    /\ UNCHANGED <<env, sink, harvest, merged_video_data, history>>

\* main, lines 244-257: the spreadsheet cannot be opened -> sys.exit(1);
\* the dated sheet exists -> return; otherwise the harvest starts.
CheckSheet ==
    /\ pc["main"] = "check"
    /\ pc' = [pc EXCEPT !["main"] =
                 IF ~sink_reachable THEN "fatal"
                 ELSE IF SheetExists(sheet_name, existing_sheets) THEN "skipped"
                 ELSE "search"]
    /\ UNCHANGED <<env, sink, harvest, merged_video_data, history>>

\* The concurrent run of the same day makes the same check (its harvest is
\* not modelled: its row set is OtherData).
OtherCheck ==
    /\ pc["other"] = "check"
    /\ pc' = [pc EXCEPT !["other"] =
                 IF SheetExists(sheet_name, existing_sheets) THEN "skipped"
                 ELSE "export_add"]
    /\ UNCHANGED <<env, sink, harvest, merged_video_data, history>>

\* ----------------------------------------------------------- main: search
\* The period check of line 146 dropped.
InPeriodAlways(published_at_utc, name) == TRUE

\* The period of the search: start_dt <= published_at_jst <= end_dt.
InPeriod(published_at_utc, name) ==
    /\ StartDatetimeJst <= convert_to_japan_time(published_at_utc)
    /\ convert_to_japan_time(published_at_utc) <= end_datetime_jst(name)

\* What the server has for a request: the channel's uploads, newest first,
\* restricted to publishedAfter..publishedBefore when it honours them.
ServerFeed(channel, after, before) ==
    IF server_filters
    THEN SelectSeq(Feed(channel, feed_size),
                   LAMBDA v : after <= PublishedAt(v) /\ PublishedAt(v) <= before)
    ELSE Feed(channel, feed_size)

\* search().list(...).execute(): items and nextPageToken of one page.
SearchResponse(channel, maxResults, after, before, pageToken) ==
    LET all == ServerFeed(channel, after, before)
        n == Min(maxResults, server_page)
        last == Min(pageToken + n, Len(all))
    IN IF server_stalls
       THEN [items |-> <<>>, nextPageToken |-> IF pageToken = 1 THEN 2 ELSE 1]
       ELSE [items |-> SubSeq(all, pageToken + 1, last),
             nextPageToken |-> IF last < Len(all) THEN last ELSE None]

\* A request that always asks for a full page.
MaxResultsFullPage(ids) == PageCeiling

\* maxResults=min(50, max_total_results - len(video_ids))
MaxResults(ids) == Min(PageCeiling, MaxTotalResults - Len(ids))

\* The break taken only when both conditions hold.
PaginationEndsBoth(token, ids) == token = None /\ Len(ids) >= MaxTotalResults

\* if not next_page_token or len(video_ids) >= max_total_results: break
\* (and the while condition, which the same test decides).
PaginationEnds(token, ids) == token = None \/ Len(ids) >= MaxTotalResults

\* One iteration of the while loop, lines 103-124.
SearchPage ==
    /\ pc["main"] = "search"
    /\ searchCalls' = Min(searchCalls + 1, MaxSearchCalls)
    /\ lastMaxResults' = MaxResults(video_ids)
    /\ \E raises \in BOOLEAN :
          IF raises
          THEN /\ pc' = [pc EXCEPT !["main"] = "detail"]
               /\ pageFailed' = TRUE
               /\ UNCHANGED <<video_ids, next_page_token, sawOld>>
          ELSE LET r == SearchResponse(channel_ids[ch], MaxResults(video_ids),
                                       jst_to_utc(StartDatetimeJst),
                                       jst_to_utc(end_datetime_jst(sheet_name)),
                                       next_page_token)
               IN /\ video_ids' = video_ids \o r.items
                  /\ next_page_token' = r.nextPageToken
                  /\ sawOld' = (sawOld \/ \E k \in 1..Len(r.items) :
                                             PublishedAt(r.items[k]) < CutoffInstant)
                  /\ pc' = [pc EXCEPT !["main"] =
                               IF PaginationEnds(r.nextPageToken, video_ids')
                               THEN "detail" ELSE "search"]
                  /\ UNCHANGED pageFailed
    /\ UNCHANGED <<env, sink, channel_ids, ch, i, video_data, video_data_list,
                   merged_video_data, detailCalls, detailLog, harvestLog>>

\* ----------------------------------------------------------- main: details
\* One item of a videos().list response.
VideoItem(v, bump) ==
    [id |-> v, publishedAt |-> PublishedAt(v), viewCount |-> BaseViews(v) + bump]

\* The record appended for an item, lines 149-158.
VideoRecord(item) ==
    [video_id |-> item.id, view_count |-> item.viewCount,
     published_at |-> item.publishedAt]

\* The for loop over video_response['items'], lines 137-158: the items
\* before the one whose handling raises (badAt, 0 when none does) are
\* handled, and those inside the period are appended.
HandleItems(items, badAt, name) ==
    LET n == IF badAt = 0 THEN Len(items) ELSE badAt - 1
        handled == SubSeq(items, 1, n)
        kept == SelectSeq(handled, LAMBDA it : InPeriod(it.publishedAt, name))
    IN [k \in 1..Len(kept) |-> VideoRecord(kept[k])]

\* The slice one id too long: video_ids[i:i+51].
BatchIdsOverlap(ids, start) ==
    SubSeq(ids, start + 1, Min(start + ChunkSize + 1, Len(ids)))

\* batch_ids = video_ids[i:i+50]
BatchIds(ids, start) == SubSeq(ids, start + 1, Min(start + ChunkSize, Len(ids)))

\* What one chunk adds to video_data: nothing when the request raises.
ChunkResult(batch, kind, bump, name) ==
    IF kind = "fail" THEN <<>>
    ELSE HandleItems([k \in 1..Len(batch) |-> VideoItem(batch[k], bump)],
                     IF kind = "bad" THEN Len(batch) ELSE 0, name)

\* One iteration of the chunk loop, lines 129-161.  The request raises
\* ("fail"), or is answered and handled ("ok"), or the handling of its last
\* item raises ("bad").
DetailChunk ==
    /\ pc["main"] = "detail"
    /\ i < Len(video_ids)
    /\ detailCalls' = detailCalls + 1
    /\ \E kind \in {"fail", "ok", "bad"}, bump \in {0, 1} :
          /\ kind # "ok" => bump = 0
          /\ ~detail_faults => (kind = "ok" /\ bump = 0)
          /\ video_data' = video_data \o
                 ChunkResult(BatchIds(video_ids, i), kind, bump, sheet_name)
          /\ detailLog' = Append(detailLog,
                                 [ids |-> BatchIds(video_ids, i), kind |-> kind])
    /\ i' = i + ChunkSize
    /\ UNCHANGED <<env, sink, pc, channel_ids, ch, video_ids, next_page_token,
                   video_data_list, merged_video_data, searchCalls,
                   sawOld, pageFailed, harvestLog, lastMaxResults>>

\* The run giving up on the first channel that yields nothing.
FinishChannelStopOnEmpty ==
    /\ pc["main"] = "detail"
    /\ i >= Len(video_ids)
    /\ video_data_list' = Append(video_data_list, video_data)
    /\ harvestLog' = Append(harvestLog, [channel |-> channel_ids[ch],
                                         ids |-> video_ids,
                                         pageFailed |-> pageFailed,
                                         chunks |-> detailLog])
    /\ IF ch < Len(channel_ids) /\ video_data # <<>>
       THEN /\ ch' = ch + 1
            /\ video_ids' = <<>>
            /\ next_page_token' = None
            /\ i' = 0
            /\ video_data' = <<>>
            /\ sawOld' = FALSE
            /\ pageFailed' = FALSE
            /\ detailLog' = <<>>
            /\ pc' = [pc EXCEPT !["main"] = "search"]
       ELSE /\ pc' = [pc EXCEPT !["main"] = "merge"]
            /\ UNCHANGED <<ch, video_ids, next_page_token, i, video_data, sawOld,
                           pageFailed, detailLog>>
    /\ UNCHANGED <<env, sink, channel_ids, merged_video_data, searchCalls,
                   detailCalls, lastMaxResults>>

\* return video_data; video_data_list.append(video_data); next channel.
FinishChannel ==
    /\ pc["main"] = "detail"
    /\ i >= Len(video_ids)
    /\ video_data_list' = Append(video_data_list, video_data)
    /\ harvestLog' = Append(harvestLog, [channel |-> channel_ids[ch],
                                         ids |-> video_ids,
                                         pageFailed |-> pageFailed,
                                         chunks |-> detailLog])
    /\ IF ch < Len(channel_ids)
       THEN /\ ch' = ch + 1
            /\ video_ids' = <<>>
            /\ next_page_token' = None
            /\ i' = 0
            /\ video_data' = <<>>
            /\ sawOld' = FALSE
            /\ pageFailed' = FALSE
            /\ detailLog' = <<>>
            /\ pc' = [pc EXCEPT !["main"] = "search"]
       ELSE /\ pc' = [pc EXCEPT !["main"] = "merge"]
            /\ UNCHANGED <<ch, video_ids, next_page_token, i, video_data, sawOld,
                           pageFailed, detailLog>>
    /\ UNCHANGED <<env, sink, channel_ids, merged_video_data, searchCalls,
                   detailCalls, lastMaxResults>>

\* ------------------------------------------------------- merge and ranking
\* The first record of a key kept: if video_id not in merged.
DictSetKeepFirst(merged, video) ==
    IF \E k \in 1..Len(merged) : merged[k].video_id = video.video_id
    THEN merged
    ELSE Append(merged, video)

\* merged[video['video_id']] = video, on a dict kept in insertion order:
\* an existing key keeps its place and takes the new value.
DictSet(merged, video) ==
    IF \E k \in 1..Len(merged) : merged[k].video_id = video.video_id
    THEN [k \in 1..Len(merged) |->
             IF merged[k].video_id = video.video_id THEN video ELSE merged[k]]
    ELSE Append(merged, video)

RECURSIVE Flatten(_)
Flatten(lists) == IF lists = <<>> THEN <<>> ELSE Head(lists) \o Flatten(Tail(lists))

\* The two for loops of merge_and_deduplicate, from the k-th video on.
RECURSIVE InsertAll(_, _, _)
InsertAll(merged, videos, k) ==
    IF k > Len(videos) THEN merged
    ELSE LET next == DictSet(merged, videos[k])
         IN IF Len(next) > 0 THEN InsertAll(next, videos, k + 1) ELSE next

\* list(merged.values())
merge_and_deduplicate(lists) == InsertAll(<<>>, Flatten(lists), 1)

\* A sort that is not stable: x goes before the elements it ties with.
RankInsertBeforeTies(sorted, x) ==
    LET before == {k \in 1..Len(sorted) : sorted[k].view_count > x.view_count}
        n == Cardinality(before)
    IN SubSeq(sorted, 1, n) \o <<x>> \o SubSeq(sorted, n + 1, Len(sorted))

\* x goes after every element that does not come after it in the order.
RankInsert(sorted, x) ==
    LET before == {k \in 1..Len(sorted) : sorted[k].view_count >= x.view_count}
        n == Cardinality(before)
    IN SubSeq(sorted, 1, n) \o <<x>> \o SubSeq(sorted, n + 1, Len(sorted))

RECURSIVE RankFrom(_, _, _)
RankFrom(sorted, videos, k) ==
    IF k > Len(videos) THEN sorted
    ELSE LET next == RankInsert(sorted, videos[k])
         IN IF Len(next) > 0 THEN RankFrom(next, videos, k + 1) ELSE next

\* merged_video_data.sort(key=lambda x: x['view_count'], reverse=True):
\* a stable sort, built by inserting the videos in order.
SortByViews(videos) == RankFrom(<<>>, videos, 1)

\* The test of line 280 dropped: an empty result is exported too.
MergeAndRankExportsEmpty ==
    /\ pc["main"] = "merge"
    /\ pc' = [pc EXCEPT !["main"] = "export_add"]
    /\ merged_video_data' =
           [merged_video_data EXCEPT
               !["main"] = SortByViews(merge_and_deduplicate(video_data_list))]
    /\ UNCHANGED <<env, sink, harvest, history>>

\* main, lines 277-285.
MergeAndRank ==
    /\ pc["main"] = "merge"
    /\ LET merged == merge_and_deduplicate(video_data_list)
       IN IF merged = <<>>
          THEN /\ pc' = [pc EXCEPT !["main"] = "empty"]
               /\ UNCHANGED merged_video_data
          ELSE /\ pc' = [pc EXCEPT !["main"] = "export_add"]
               /\ merged_video_data' =
                      [merged_video_data EXCEPT !["main"] = SortByViews(merged)]
    /\ UNCHANGED <<env, sink, harvest, history>>

\* ------------------------------------------------------------------ export
\* One row of the sheet, lines 207-219.
Row(video) ==
    [video_id |-> video.video_id, view_count |-> video.view_count,
     published |-> convert_to_japan_time(video.published_at)]

Rows(videos) == [k \in 1..Len(videos) |-> Row(videos[k])]

Wrote(p) == sinkWrites' = [sinkWrites EXCEPT ![p] = @ + 1]

\* sh.add_worksheet(title=sheet_name, ...): raises when the title exists.
ExportAdd(p) ==
    /\ pc[p] = "export_add"
    /\ IF SheetExists(sheet_name, existing_sheets)
       THEN /\ pc' = [pc EXCEPT ![p] = "export_exists"]
            /\ createFailed' = createFailed \cup {p}
            /\ UNCHANGED <<sheets, sinkWrites>>
       ELSE /\ sheets' = [sheets EXCEPT ![sheet_name] = [exists |-> TRUE, rows |-> <<>>]]
            /\ Wrote(p)
            /\ UNCHANGED createFailed
            /\ pc' = [pc EXCEPT ![p] = "export_clear"]
    /\ UNCHANGED <<env, harvest, merged_video_data, history>>

\* A clear that leaves the rows in place.
NotCleared(sheet) == sheet

\* What worksheet.clear() leaves.
Cleared(sheet) == [sheet EXCEPT !.rows = <<>>]

\* except APIError: worksheet = sh.worksheet(sheet_name); worksheet.clear()
ExportClearExisting(p) ==
    /\ pc[p] = "export_exists"
    /\ sheets' = [sheets EXCEPT ![sheet_name] = Cleared(@)]
    /\ Wrote(p)
    /\ pc' = [pc EXCEPT ![p] = "export_clear"]
    /\ UNCHANGED <<env, harvest, merged_video_data, history, createFailed>>

\* worksheet.clear(), line 222.
ExportClear(p) ==
    /\ pc[p] = "export_clear"
    /\ sheets' = [sheets EXCEPT ![sheet_name] = Cleared(@)]
    /\ Wrote(p)
    /\ pc' = [pc EXCEPT ![p] = "export_header"]
    /\ UNCHANGED <<env, harvest, merged_video_data, history, createFailed>>

\* worksheet.append_row(headers), line 223.
ExportAppendHeader(p) ==
    /\ pc[p] = "export_header"
    /\ sheets' = [sheets EXCEPT ![sheet_name].rows = Append(@, Headers)]
    /\ Wrote(p)
    /\ pc' = [pc EXCEPT ![p] = "export_rows"]
    /\ UNCHANGED <<env, harvest, merged_video_data, history, createFailed>>

\* The rows also mirrored into the second destination when one is named.
ExportAppendRowsMirrors(p) ==
    /\ pc[p] = "export_rows"
    /\ IF Rows(merged_video_data[p]) # <<>>
       THEN /\ sheets' = [sheets EXCEPT ![sheet_name].rows =
                                           @ \o Rows(merged_video_data[p])]
            /\ Wrote(p)
       ELSE UNCHANGED <<sheets, sinkWrites>>
    /\ latest_sheet' = IF secondary_configured
                       THEN <<Headers>> \o Rows(merged_video_data[p])
                       ELSE latest_sheet
    /\ pc' = [pc EXCEPT ![p] = "published"]
    /\ UNCHANGED <<fixed, codec, harvest, merged_video_data, history, createFailed>>

\* if rows: worksheet.append_rows(rows, ...), lines 224-225.
ExportAppendRows(p) ==
    /\ pc[p] = "export_rows"
    /\ IF Rows(merged_video_data[p]) # <<>>
       THEN /\ sheets' = [sheets EXCEPT ![sheet_name].rows =
                                           @ \o Rows(merged_video_data[p])]
            /\ Wrote(p)
       ELSE UNCHANGED <<sheets, sinkWrites>>
    /\ pc' = [pc EXCEPT ![p] = "published"]
    /\ UNCHANGED <<env, harvest, merged_video_data, history, createFailed>>

Next ==
    \/ ReadChannelIds
    \/ CheckSheet
    \/ OtherCheck
    \/ SearchPage
    \/ DetailChunk
    \/ FinishChannel
    \/ MergeAndRank
    \/ \E p \in Procs : ExportAdd(p)
    \/ \E p \in Procs : ExportClearExisting(p)
    \/ \E p \in Procs : ExportClear(p)
    \/ \E p \in Procs : ExportAppendHeader(p)
    \/ \E p \in Procs : ExportAppendRows(p)

Spec == Init /\ [][Next]_vars

\* One channel, with and without a second destination named in the
\* environment.
InitSecondary ==
    /\ now_utc \in Clocks
    /\ channel_file = <<"", "chA">>
    /\ feed_size = 0
    /\ server_filters \in BOOLEAN
    /\ server_page \in {ShortPage, PageCeiling}
    /\ server_stalls = FALSE
    /\ detail_faults = TRUE
    /\ sink_reachable = TRUE
    /\ secondary_configured \in BOOLEAN
    /\ latest_sheet = OldContent
    /\ sheets \in SheetsBefore
    /\ Start

SpecSecondary == InitSecondary /\ [][Next]_vars

\* ------------------------------------------ one channel beyond the cap
\* A single channel with more than max_total_results uploads, all inside
\* the period, served in pages of 50 or of 49; every detail request
\* succeeds and no sheet exists yet.
InitCap ==
    /\ now_utc \in Clocks
    /\ \A t \in Clocks : now_utc <= t
    /\ channel_file = <<"chB">>
    /\ feed_size = MaxTotalResults + PageCeiling
    /\ server_filters = TRUE
    /\ server_page \in {PageCeiling - 1, PageCeiling}
    /\ server_stalls = FALSE
    /\ detail_faults = FALSE
    /\ sink_reachable = TRUE
    /\ secondary_configured = FALSE
    /\ latest_sheet = OldContent
    /\ sheets = [n \in SheetNames |-> Absent]
    /\ Start

SpecCap == InitCap /\ [][Next]_vars

\* ------------------------------------- the display functions on their own
\* No run is started; one display function gets one input.
InitCodec ==
    /\ now_utc \in Clocks
    /\ channel_file = <<>>
    /\ feed_size = 0
    /\ server_filters = TRUE
    /\ server_page = PageCeiling
    /\ server_stalls = FALSE
    /\ detail_faults = FALSE
    /\ sink_reachable = TRUE
    /\ secondary_configured = FALSE
    /\ latest_sheet = OldContent
    /\ sheets \in SheetsBefore
    /\ pc = [p \in Procs |-> IF p = "main" THEN "start" ELSE "check"]
    /\ channel_ids = <<>>
    /\ ch = 1
    /\ video_ids = <<>>
    /\ next_page_token = None
    /\ i = 0
    /\ video_data = <<>>
    /\ video_data_list = <<>>
    /\ merged_video_data = [p \in Procs |-> IF p = "main" THEN <<>> ELSE OtherData]
    /\ searchCalls = 0
    /\ detailCalls = 0
    /\ sinkWrites = [p \in Procs |-> 0]
    /\ sawOld = FALSE
    /\ pageFailed = FALSE
    /\ detailLog = <<>>
    /\ harvestLog = <<>>
    /\ lastMaxResults = 0
    /\ createFailed = {}
    /\ duration_display = ""
    /\ engagement_rate = 0
    /\ \/ /\ codec_pc = "duration"
          /\ counts = <<0, 0, 0>>
          /\ \/ /\ duration_parts \in (-1..MaxHours) \X {-1, 0, 2, 59, 60} \X {-1, 0, 3, 45, 60}
                /\ duration_token = DurationToken(duration_parts)
             \/ /\ duration_parts = <<-1, -1, -1>>
                /\ duration_token \in MalformedTokens
       \/ /\ codec_pc = "engagement"
          /\ counts \in (0..MaxLikes) \X (0..MaxLikes) \X (0..MaxViews)
          /\ duration_parts = <<-1, -1, -1>>
          /\ duration_token = <<>>

pipeline == <<fixed, latest_sheet, sink, harvest, merged_video_data, history, pc>>

\* iso8601_to_duration(video['duration']), line 216.
ApplyDuration ==
    /\ codec_pc = "duration"
    /\ duration_display' = iso8601_to_duration(duration_token)
    /\ codec_pc' = "duration_done"
    /\ UNCHANGED <<pipeline, duration_parts, duration_token, counts, engagement_rate>>

\* calc_engagement_rate(like_count, comment_count, view_count), line 205.
ApplyEngagement ==
    /\ codec_pc = "engagement"
    /\ engagement_rate' \in calc_engagement_rate(counts[1], counts[2], counts[3])
    /\ codec_pc' = "engagement_done"
    /\ UNCHANGED <<pipeline, duration_parts, duration_token, duration_display, counts>>

NextCodec == ApplyDuration \/ ApplyEngagement

SpecCodec == InitCodec /\ [][NextCodec]_vars

\* One channel, with a search that may answer empty pages with a token for
\* ever.
InitStalling ==
    /\ now_utc \in Clocks
    /\ channel_file = <<"", "chA">>
    /\ feed_size = 0
    /\ server_filters \in BOOLEAN
    /\ server_page \in {ShortPage, PageCeiling}
    /\ server_stalls \in BOOLEAN
    /\ detail_faults = TRUE
    /\ sink_reachable \in BOOLEAN
    /\ secondary_configured = FALSE
    /\ latest_sheet = OldContent
    /\ sheets \in SheetsBefore
    /\ Start

\* The steps of main: a single thread of blocking calls, each of which
\* returns or raises, so main keeps taking its next step while it has one.
MainStep ==
    \/ ReadChannelIds
    \/ CheckSheet
    \/ SearchPage
    \/ DetailChunk
    \/ FinishChannel
    \/ MergeAndRank
    \/ ExportAdd("main")
    \/ ExportClearExisting("main")
    \/ ExportClear("main")
    \/ ExportAppendHeader("main")
    \/ ExportAppendRows("main")

SpecFair == InitStalling /\ [][Next]_vars /\ WF_vars(MainStep)

\* ================================================================== claims
\* The date of the run in the +9:00 offset, as a day number.
TodayIdentifier == (now_utc + 9 * 3600) \div 86400

AfterHarvest == {"merge", "empty", "export_add", "export_exists", "export_clear",
                 "export_header", "export_rows", "published"}

RECURSIVE ConcatIds(_)
ConcatIds(log) == IF log = <<>> THEN <<>> ELSE Head(log).ids \o ConcatIds(Tail(log))

CeilDiv50(k) == (k + 49) \div 50

HasRecord(data, id) == \E k \in 1..Len(data) : data[k].video_id = id

AllChunksDone == pc["main"] \in (AfterHarvest \cup {"detail"}) /\ i >= Len(video_ids)

\* C1: when the dated sheet of today (date in the +9:00 offset) exists at
\* the check, the run goes to SKIPPED (or exits as fatal when the
\* spreadsheet cannot be read), stays there, and has issued no search
\* request, no detail request and no sheet write.
C1_SkippedDoesNothing ==
    /\ [][(pc["main"] = "check" /\ sheets[TodayIdentifier].exists
              /\ pc'["main"] # "check")
            => pc'["main"] \in {"skipped", "fatal"}]_vars
    /\ [][pc["main"] = "skipped" => pc'["main"] = "skipped"]_vars
    /\ [](pc["main"] \in {"skipped", "fatal"}
            => searchCalls = 0 /\ detailCalls = 0 /\ sinkWrites["main"] = 0)

C1_Witness == pc["main"] = "skipped" /\ sheets[TodayIdentifier].exists

\* C2 as stated: once the create of the dated sheet has failed because the
\* sheet exists, the run writes nothing more to the spreadsheet.
C2_ConflictIsSurfaced ==
    [][("main" \in createFailed) => sinkWrites'["main"] = sinkWrites["main"]]_vars

\* C2 as amended: after a failed create the run does not fail: its next
\* step clears the existing sheet (nothing of its content is kept), and the
\* create is never issued a second time.
C2_ConflictOverwrites ==
    /\ [][(pc["main"] = "export_exists" /\ pc'["main"] # "export_exists")
            => /\ pc'["main"] = "export_clear"
               /\ sheets'[TodayIdentifier].exists
               /\ sheets'[TodayIdentifier].rows = <<>>
               /\ sinkWrites'["main"] = sinkWrites["main"] + 1]_vars
    /\ [][pc'["main"] = "export_add" => pc["main"] \in {"merge", "export_add"}]_vars

C2_Witness ==
    /\ "main" \in createFailed
    /\ pc["main"] = "export_clear"
    /\ sheets[TodayIdentifier].rows = <<>>

\* C3: no record collected, exported or written by the run was published
\* strictly before 2020-01-01T00:00:00 UTC.
C3_CutoffInvariant ==
    /\ \A k \in 1..Len(video_data) : video_data[k].published_at >= CutoffInstant
    /\ \A k \in 1..Len(merged_video_data["main"]) :
          merged_video_data["main"][k].published_at >= CutoffInstant
    /\ \A n \in DOMAIN sheets : \A k \in 1..Len(sheets[n].rows) :
          LET row == sheets[n].rows[k]
          IN ("video_id" \in DOMAIN row /\ row.video_id >= 1)
                => row.published - 9 * 3600 >= CutoffInstant

C3_Witness ==
    /\ pc["main"] = "published"
    /\ \E h \in 1..Len(harvestLog) : \E k \in 1..Len(harvestLog[h].ids) :
          PublishedAt(harvestLog[h].ids[k]) < CutoffInstant
    /\ \E k \in 1..Len(sheets[TodayIdentifier].rows) :
          "video_id" \in DOMAIN sheets[TodayIdentifier].rows[k]
             /\ sheets[TodayIdentifier].rows[k].video_id >= 1

NoRequestFailed ==
    \A h \in 1..Len(harvestLog) :
       /\ ~harvestLog[h].pageFailed
       /\ \A c \in 1..Len(harvestLog[h].chunks) : harvestLog[h].chunks[c].kind = "ok"

\* C4: in a run without a failed request, every video of a tracked channel
\* published at or after 2020-01-01T00:00:00 UTC is in the published rows.
C4_CompleteSinceCutoff ==
    (pc["main"] \in {"export_add", "published"} /\ NoRequestFailed)
       => \A c \in 1..Len(channel_ids) :
             LET feed == Feed(channel_ids[c], feed_size)
             IN \A k \in 1..Len(feed) :
                   PublishedAt(feed[k]) >= CutoffInstant
                      => HasRecord(merged_video_data["main"], feed[k])

\* C5: no record of a chunk whose processing failed is in the channel's
\* result, every chunk is requested, and every record of the period from a
\* chunk that did not fail is in the result.
C5_FailedChunkDropped ==
    /\ \A c \in 1..Len(detailLog) : \A k \in 1..Len(detailLog[c].ids) :
          IF detailLog[c].kind = "ok"
          THEN InPeriod(PublishedAt(detailLog[c].ids[k]), TodayIdentifier)
                  => HasRecord(video_data, detailLog[c].ids[k])
          ELSE ~HasRecord(video_data, detailLog[c].ids[k])
    /\ AllChunksDone => Len(detailLog) = CeilDiv50(Len(video_ids))

\* C6: a failed page request ends the pagination of its channel without
\* another request and keeps the ids collected so far; these ids are the
\* ones sent to the detail fetch and the records of its answered chunks are
\* kept; every channel of the list, also one that yields nothing,
\* contributes one list and the run goes on to the end of the list.
C6_PerUnitRecovery ==
    /\ [][(pageFailed' /\ ~pageFailed)
            => (pc'["main"] = "detail" /\ video_ids' = video_ids)]_vars
    /\ [](pageFailed => pc["main"] # "search")
    /\ [](AllChunksDone => ConcatIds(detailLog) = video_ids)
    /\ [](AllChunksDone =>
            \A c \in 1..Len(detailLog) : \A k \in 1..Len(detailLog[c].ids) :
               (detailLog[c].kind = "ok"
                  /\ InPeriod(PublishedAt(detailLog[c].ids[k]), TodayIdentifier))
                 => HasRecord(video_data, detailLog[c].ids[k]))
    /\ [][Len(harvestLog') > Len(harvestLog)
            => video_data_list' = Append(video_data_list, video_data)]_vars
    /\ [](pc["main"] \in AfterHarvest
            => /\ Len(video_data_list) = Len(channel_ids)
               /\ Len(harvestLog) = Len(channel_ids)
               /\ \A k \in 1..Len(channel_ids) :
                     harvestLog[k].channel = channel_ids[k])

C6_Witness ==
    /\ pc["main"] = "published"
    /\ \E k \in 1..Len(harvestLog) :
          /\ k < Len(channel_ids)
          /\ harvestLog[k].pageFailed
          /\ harvestLog[k].ids # <<>>
          /\ video_data_list[k] # <<>>

\* C7: the chunks requested for a channel are, in order, a partition of
\* its k collected ids into pieces of 1 to 50 ids, ceil(k/50) of them once
\* the channel is done.
C7_Batching ==
    /\ \A c \in 1..Len(detailLog) :
          Len(detailLog[c].ids) >= 1 /\ Len(detailLog[c].ids) <= 50
    /\ ConcatIds(detailLog) = SubSeq(video_ids, 1, Min(i, Len(video_ids)))
    /\ AllChunksDone => Len(detailLog) = CeilDiv50(Len(video_ids))

C7_Witness ==
    /\ pc["main"] = "detail"
    /\ i >= Len(video_ids)
    /\ Len(video_ids) > 50
    /\ Len(detailLog) = 2

\* C8 as stated: once a page of the channel held an item published before
\* the cutoff, no further page is requested for the channel.
C8_EarlyExit == [][sawOld => searchCalls' = searchCalls]_vars

\* C8 as amended: the publish instants of a page's items are not looked
\* at; after a page request the pagination of the channel goes on exactly
\* when the request did not fail, the page carries a continuation token and
\* fewer than 500 ids are collected.
C8_TokenDecides ==
    [][searchCalls' # searchCalls
         => ((pc'["main"] = "search")
               <=> (~pageFailed' /\ next_page_token' # None
                      /\ Len(video_ids') < 500))]_vars

C8_Witness == sawOld /\ pc["main"] = "search" /\ next_page_token # None

Flat == Flatten(video_data_list)

\* C9: the merged set holds exactly one record per video id of the
\* per-channel lists, the one inserted last, and inserting a record of the
\* set again changes nothing.
C9_MergeUniqueness ==
    pc["main"] \in {"export_add", "empty"} =>
       LET m == merged_video_data["main"]
       IN /\ \A j \in 1..Len(Flat) :
                Cardinality({k \in 1..Len(m) : m[k].video_id = Flat[j].video_id}) = 1
          /\ \A k \in 1..Len(m) :
                \E j \in 1..Len(Flat) :
                   /\ Flat[j] = m[k]
                   /\ \A j2 \in (j + 1)..Len(Flat) : Flat[j2].video_id # m[k].video_id
          /\ \A k \in 1..Len(m) : DictSet(m, m[k]) = m

C9_Witness ==
    /\ pc["main"] = "export_add"
    /\ \E j1, j2 \in 1..Len(Flat) :
          /\ j1 < j2
          /\ Flat[j1].video_id = Flat[j2].video_id
          /\ Flat[j1].view_count # Flat[j2].view_count

FirstInsertion(id) ==
    CHOOSE j \in 1..Len(Flat) :
       /\ Flat[j].video_id = id
       /\ \A j0 \in 1..(j - 1) : Flat[j0].video_id # id

\* C10: the exported sequence is ordered by view_count descending, and
\* records with equal view_count are in the order in which their video ids
\* were first inserted into the merged set.
C10_Ranking ==
    pc["main"] = "export_add" =>
       LET m == merged_video_data["main"]
       IN \A k \in 1..(Len(m) - 1) :
             /\ m[k].view_count >= m[k + 1].view_count
             /\ m[k].view_count = m[k + 1].view_count
                  => FirstInsertion(m[k].video_id) < FirstInsertion(m[k + 1].video_id)

C10_Witness ==
    /\ pc["main"] = "export_add"
    /\ \E k \in 1..(Len(merged_video_data["main"]) - 1) :
          merged_video_data["main"][k].view_count
             = merged_video_data["main"][k + 1].view_count
    /\ \E j1, j2 \in 1..Len(Flat) :
          j1 < j2 /\ Flat[j1].video_id = Flat[j2].video_id

\* C11: when the merged result of the harvest is empty the run ends in
\* EMPTY, stays there, and has written nothing to the spreadsheet.
C11_EmptyWritesNothing ==
    /\ [][(pc["main"] = "merge" /\ pc'["main"] # "merge"
              /\ \A k \in 1..Len(video_data_list) : video_data_list[k] = <<>>)
            => pc'["main"] = "empty"]_vars
    /\ [][pc["main"] = "empty" => pc'["main"] = "empty"]_vars
    /\ [](pc["main"] = "empty"
            => sinkWrites["main"] = 0 /\ merged_video_data["main"] = <<>>)

C11_Witness ==
    /\ pc["main"] = "empty"
    /\ Len(harvestLog) = Len(channel_ids)
    /\ \E k \in 1..Len(harvestLog) : harvestLog[k].ids # <<>>

NoChannelListed == \A k \in 1..Len(channel_file) : channel_file[k] = ""

\* C12 as stated: with no channel id in the channel list the run ends in
\* EMPTY.
C12_EmptyListIsEmpty ==
    (NoChannelListed /\ pc["main"] # "start") => pc["main"] = "empty"

\* C12 as amended: with no channel id in the channel list the run exits as
\* a fatal error at once: no check of the spreadsheet, no request, no write.
C12_EmptyListIsFatal ==
    NoChannelListed =>
       /\ pc["main"] \in {"start", "fatal"}
       /\ searchCalls = 0 /\ detailCalls = 0 /\ sinkWrites["main"] = 0

C12_Witness == NoChannelListed /\ pc["main"] = "fatal"

\* C13: when the spreadsheet cannot be opened for the check the run exits
\* as a fatal error: it never searches, fetches details or writes.
C13_UnreachableSinkIsFatal ==
    ~sink_reachable =>
       /\ pc["main"] \in {"start", "check", "fatal"}
       /\ searchCalls = 0 /\ detailCalls = 0 /\ sinkWrites["main"] = 0

C13_Witness == ~sink_reachable /\ pc["main"] = "fatal" /\ channel_ids # <<>>

\* C14 as stated: when a second destination is configured, a run that
\* has published has replaced its content by the header and the rows it
\* wrote to the dated sheet.
C14_SecondaryReplaced ==
    (pc["main"] = "published" /\ secondary_configured)
       => latest_sheet = <<Headers>> \o Rows(merged_video_data["main"])

\* C14 as amended: whether or not a second destination is configured, no
\* step of a run changes it or any sheet other than the dated one, and a
\* run that has published has written to the dated sheet only.
C14_PrimaryOnly ==
    /\ [][latest_sheet' = latest_sheet]_vars
    /\ [][\A n \in DOMAIN sheets : n # TodayIdentifier => sheets'[n] = sheets[n]]_vars
    /\ [](pc["main"] = "published" => latest_sheet = OldContent)

C14_Witness ==
    /\ pc["main"] = "published"
    /\ secondary_configured
    /\ latest_sheet = OldContent
    /\ sinkWrites["main"] >= 4

Occurrences(c) == Cardinality({k \in 1..Len(channel_file) : channel_file[k] = c})

Harvests(c) == Cardinality({k \in 1..Len(harvestLog) : harvestLog[k].channel = c})

\* C15 as stated: no channel id is harvested twice in a run.
C15_EachChannelOnce ==
    \A j, k \in 1..Len(harvestLog) :
       j < k => harvestLog[j].channel # harvestLog[k].channel

\* C15 as amended: the channel list is used as read, blank lines apart: a
\* channel id is harvested once for every line that holds it, so a
\* channel listed twice is searched and its details fetched twice.
C15_ListUsedAsRead ==
    /\ \A k \in 1..Len(harvestLog) : harvestLog[k].channel # ""
    /\ pc["main"] \in AfterHarvest =>
          \A k \in 1..Len(channel_file) :
             channel_file[k] # "" => Harvests(channel_file[k]) = Occurrences(channel_file[k])

C15_Witness ==
    /\ pc["main"] \in AfterHarvest
    /\ \E j, k \in 1..Len(harvestLog) :
          /\ j < k
          /\ harvestLog[j].channel = harvestLog[k].channel
          /\ harvestLog[j].chunks # <<>>
          /\ harvestLog[k].chunks # <<>>

\* C16: every run of main reaches a terminal outcome: SKIPPED, EMPTY,
\* PUBLISHED or a fatal exit.
C16_Terminates ==
    <>(pc["main"] \in {"skipped", "empty", "published", "fatal"})

PresentPart(k) == IF duration_parts[k] >= 0 THEN duration_parts[k] ELSE 0

TotalSeconds == PresentPart(1) * 3600 + PresentPart(2) * 60 + PresentPart(3)

TwoDigits(n) == IF n < 10 THEN "0" \o ToString(n) ELSE ToString(n)

\* C17: a token written from hours, minutes and seconds (any of them left
\* out) is displayed as H:MM:SS with H the total number of hours, and a
\* token that is malformed or empty as 0:00:00.
C17_DurationDisplay ==
    codec_pc = "duration_done" =>
       duration_display =
          ToString(TotalSeconds \div 3600) \o ":"
             \o TwoDigits((TotalSeconds % 3600) \div 60) \o ":"
             \o TwoDigits(TotalSeconds % 60)

\* C18: the engagement rate is 0.0 when view_count is 0, and otherwise a
\* two-decimal value nearest to (like_count + comment_count) / view_count
\* * 100; for 5 likes, 5 comments and 100 views it is 10.0.
C18_EngagementRate ==
    codec_pc = "engagement_done" =>
       LET sum == counts[1] + counts[2]
           views == counts[3]
           diff == engagement_rate * views - 10000 * sum
       IN /\ views = 0 => engagement_rate = 0
          /\ views > 0 => (2 * diff <= views /\ -2 * diff <= views)
          /\ counts = <<5, 5, 100>> => engagement_rate = 1000

C18_Witness ==
    /\ codec_pc = "engagement_done"
    /\ counts[3] = 0
    /\ counts[1] + counts[2] > 0
    /\ engagement_rate = 0

\* C19: when main's export completes, today's sheet holds one header row
\* followed by main's ranked rows and nothing else, whatever the sheet held
\* before and whatever another run of the same date does in between.
C19_ExportHoldsOwnRows ==
    [][(pc["main"] = "export_rows" /\ pc'["main"] = "published") =>
          sheets'[TodayIdentifier].rows
             = <<Headers>> \o Rows(merged_video_data["main"])]_vars

\* C20: the ids collected for a channel never exceed max_total_results,
\* each page request asks for min(50, 500 - collected) items, and no page
\* is requested once 500 ids are collected.
C20_CapRespected ==
    [][/\ Len(video_ids') <= MaxTotalResults
       /\ pc'["main"] = "search" => Len(video_ids') < MaxTotalResults
       /\ searchCalls' # searchCalls =>
             lastMaxResults' = Min(PageCeiling, MaxTotalResults - Len(video_ids))]_vars

C20_Witness ==
    /\ pc["main"] = "detail"
    /\ Len(video_ids) = MaxTotalResults
    /\ lastMaxResults > 0
    /\ lastMaxResults < PageCeiling
    /\ ~pageFailed

====
